---- MODULE Spec2Model ----
(***************************************************************************)
(* Multi-hart bring-up of the RVirt hypervisor (src/src/main.rs):          *)
(* the hart lottery in mstart, the orchestrator's dispatch loop in sstart, *)
(* the per-hart mailbox (REASON_ARRAY) and inter-processor interrupt, the  *)
(* wake handler of a waiting hart, and hart_entry up to the sret into the  *)
(* guest.                                                                  *)
(*                                                                         *)
(* Physical addresses are 64-bit in the program and exceed the range of    *)
(* the model checker's integers, so an address is a pair <<mib, off>>      *)
(* standing for mib * 2^20 + off with 0 <= off < 2^20.  Every address the  *)
(* model handles is below 2^40, so u64 wrap-around never occurs in them;   *)
(* the one subtraction that can wrap (initrd_end - initrd_start) is        *)
(* modelled with its wrap.                                                 *)
(***************************************************************************)
EXTENDS Integers, Sequences, FiniteSets, TLC

(* ------------------------------ bounds --------------------------------- *)

\* Number of harts that come out of reset and race through mstart.
NumHarts == 3

Harts == 0 .. (NumHarts - 1)

\* Cap on sstart's guest-id counter.  The loop runs once per listed hart, so
\* the counter never passes NumHarts and the cap never restrains it.
MaxGuestId == NumHarts

\* Number of times a hart's wake handler may run (one wake by the
\* orchestrator, the rest spurious).
MaxWakes == 2

(* ----------------------------- addresses ------------------------------- *)

MiB == 1048576

Addr(mib, off) == <<mib + (off \div MiB), off % MiB>>

AddrAdd(a, bytes) == Addr(a[1], a[2] + bytes)

AddrAddMiB(a, mib) == <<a[1] + mib, a[2]>>

AddrLE(a, b) == a[1] < b[1] \/ (a[1] = b[1] /\ a[2] <= b[2])

AddrLT(a, b) == a[1] < b[1] \/ (a[1] = b[1] /\ a[2] < b[2])

\* a - b in bytes, for a >= b
AddrDiff(a, b) == (a[1] - b[1]) * MiB + (a[2] - b[2])

\* a >> 12
AddrPage(a) == a[1] * 256 + (a[2] \div 4096)

(* --------------------- constants of the memory layout ------------------ *)

\* pmap::HART_SEGMENT_SIZE, in MiB (1 GiB per hart segment)
HART_SEGMENT_SIZE == 1024

\* pmap::HEAP_OFFSET, in MiB
HEAP_OFFSET == 4

\* pmap::HEAP_SIZE, in bytes (0xc0400000 .. 0xc4000000)
HEAP_SIZE == 62914560

\* offsets, in MiB from the segment base, of the sub-regions of a hart segment
STACK_OFFSET == 0

DATA_OFFSET == 2

PAGE_TABLE_OFFSET == 32

GUEST_MEMORY_OFFSET == 64

\* ceiling on the device tree's total size, in bytes (64 * 1024)
FDT_MAX_SIZE == 65536

\* number of virtio descriptors examined per guest
VIRTIO_PER_GUEST == 4

\* exclusive bound on an irq number that fits the u32 enable mask
IRQ_LIMIT == 32

\* mie value written by mstart (MSIE | MTIE)
MIE_VALUE == 136

\* bit of mie/mip for the machine software interrupt
MSI_BIT == 3

Bit(v, i) == ((v \div (2 ^ i)) % 2) = 1

\* A region of physical memory [lo, hi)
Region(lo, hi) == [lo |-> lo, hi |-> hi]

\* Two regions have a byte in common.
Overlaps(r1, r2) ==
    /\ AddrLT(r1.lo, r1.hi)
    /\ AddrLT(r2.lo, r2.hi)
    /\ AddrLT(r1.lo, r2.hi)
    /\ AddrLT(r2.lo, r1.hi)

(* ------------------------- machine description ------------------------- *)

\* Start of physical memory as reported by the device tree (0x80000000).
PHYS_OFFSET == <<2048, 0>>

\* End of the hypervisor's own segment: physical_memory_offset + HART_SEGMENT_SIZE
HypervisorEnd(pmo) == AddrAddMiB(pmo, HART_SEGMENT_SIZE)

\* A hart of the machine description.  The S-mode PLIC context of hart h on
\* the QEMU virt board is 2h + 1.
HartRec(h) == [hartid |-> h, plic_context |-> 2 * h + 1]

AscendingHarts == [i \in 1 .. NumHarts |-> HartRec(i - 1)]

DescendingHarts == [i \in 1 .. NumHarts |-> HartRec(NumHarts - i)]

\* Header of a well-formed device tree blob, one byte below the size ceiling.
ValidFdt ==
    [magic_valid |-> TRUE, version |-> 17, last_comp_version |-> 16,
     total_size |-> FDT_MAX_SIZE - 1]

\* A machine all of whose checks pass: the initrd is exactly HEAP_SIZE bytes
\* and ends exactly at the end of the hypervisor's segment; five virtio
\* descriptors, so the window of guest 2 is partly filled and that of guest 3
\* empty; physical memory (size in MiB) holds one segment per hart.
GoodMachine(harts) ==
    [physical_memory_offset |-> PHYS_OFFSET,
     physical_memory_size |-> Len(harts) * HART_SEGMENT_SIZE,
     initrd_start |-> AddrAdd(AddrAddMiB(PHYS_OFFSET, HART_SEGMENT_SIZE - 64), 4 * MiB),
     initrd_end   |-> HypervisorEnd(PHYS_OFFSET),
     harts  |-> harts,
     virtio |-> <<[irq |-> 1], [irq |-> 2], [irq |-> 3], [irq |-> 31], [irq |-> 5]>>,
     fdt    |-> ValidFdt]

GoodMachines == { GoodMachine(AscendingHarts), GoodMachine(DescendingHarts) }

\* Machines that fail one check of sstart.
BadMachines ==
    LET g == GoodMachine(AscendingHarts) IN
    { \* initrd one byte larger than HEAP_SIZE
      [g EXCEPT !.initrd_start = AddrAdd(AddrAddMiB(g.initrd_start, -1), MiB - 1)],
      \* initrd of HEAP_SIZE bytes ending one byte past the hypervisor segment
      [g EXCEPT !.initrd_start = AddrAdd(g.initrd_start, 1),
                !.initrd_end = AddrAdd(g.initrd_end, 1)],
      \* initrd_end below initrd_start: the u64 subtraction wraps
      [g EXCEPT !.initrd_end = AddrAddMiB(g.initrd_start, -1)],
      \* an irq that does not fit the enable mask, in the window of guest 1
      [g EXCEPT !.virtio = <<[irq |-> 1], [irq |-> 32]>>],
      \* the same in the window of guest 2
      [g EXCEPT !.virtio = <<[irq |-> 1], [irq |-> 2], [irq |-> 3], [irq |-> 4],
                             [irq |-> 40]>>],
      \* device tree header faults
      [g EXCEPT !.fdt.magic_valid = FALSE],
      [g EXCEPT !.fdt.version = 16],
      [g EXCEPT !.fdt.last_comp_version = 18],
      [g EXCEPT !.fdt.total_size = FDT_MAX_SIZE] }

Machines == GoodMachines \cup BadMachines

\* End of physical memory: physical_memory_offset + physical_memory_size
MemoryEnd(m) == AddrAddMiB(m.physical_memory_offset, m.physical_memory_size)

\* A machine that passes every check of sstart but lists more harts than its
\* memory holds segments for: 2 GiB of memory at 0x80000000, enough for the
\* hypervisor's segment and that of guest 1.
SmallMemoryMachine ==
    [GoodMachine(AscendingHarts) EXCEPT !.physical_memory_size = 2 * HART_SEGMENT_SIZE]

(* ------------------------------- state --------------------------------- *)

VARIABLES
    machine,        \* the device tree's content (input, fixed at reset)
    HART_LOTTERY,   \* static HART_LOTTERY: AtomicBool
    pc,             \* per hart: the place it executes
    lottery,        \* per hart: value its swap returned ("none" before it)
    priv,           \* per hart: privilege mode, "M" or "S"
    csr,            \* per hart: mie, mstatus.MIE, mstatus.MPP, mepc, mtvec, satp, sstatus.SUM
    pmp,            \* per hart: the PMP entries installed
    guestid,        \* per hart: sstart's local counter guestid
    iter,           \* per hart: sstart's position in machine.harts
    cur,            \* per hart: sstart's loop locals (hartid, plic_context, hart_base_pa)
    REASON_ARRAY,   \* ipi::REASON_ARRAY, one slot per hart
    msip,           \* CLINT: the software interrupt pending bit of each hart
    ipiCount,       \* per hart: number of writes to its CLINT trigger register
    plic,           \* PLIC: source priorities; per context, threshold and enable
                    \* words (-1: not written since reset)
    staged,         \* per hart: what sstart has written into the hart's segment
    args,           \* per hart: the reason its wake handler applied
    wakes,          \* per hart: number of runs of its wake handler
    panicAt,        \* per hart: source line of the failed assertion, 0 if none
    regs,           \* general purpose registers of the hart in hart_entry's exit
    scrub_pc,       \* position in hart_entry's final asm block
    guest_dtb,      \* hart_entry's local guest_dtb
    operand,        \* the register the compiler gave the asm block's input $0
    walk            \* the last address translation made through the boot page table

hartVars == <<pc, lottery, priv, csr, pmp>>

orchVars == <<guestid, iter, cur>>

ipiVars == <<REASON_ARRAY, msip, ipiCount>>

devVars == <<plic, staged>>

wakeVars == <<args, wakes>>

scrubVars == <<regs, scrub_pc, guest_dtb, operand>>

vars == <<machine, HART_LOTTERY, hartVars, orchVars, ipiVars, devVars, wakeVars,
          panicAt, scrubVars, walk>>

NoReason == [tag |-> "None"]

NotStaged == [tag |-> "none"]

NoWalk == [tag |-> "none"]

NoTarget == [hartid |-> -1, plic_context |-> -1, hart_base_pa |-> <<0, 0>>]

Contexts == 0 .. (2 * NumHarts - 1)

\* General purpose registers x1..x31 by ABI name.
Regs ==
    { "ra", "sp", "gp", "tp", "t0", "t1", "t2", "s0", "s1",
      "a0", "a1", "a2", "a3", "a4", "a5", "a6", "a7",
      "s2", "s3", "s4", "s5", "s6", "s7", "s8", "s9", "s10", "s11",
      "t3", "t4", "t5", "t6" }

\* CSR state of a hart when _start calls mstart.
ResetCsr ==
    [mie |-> 0, mstatus_mie |-> FALSE, mpp |-> "M", mepc |-> "none",
     mtvec |-> "_start", satp |-> [mode |-> 0, ppn |-> 0], sum |-> FALSE]

\* Everything but the machine description and the harts' places at reset.
InitRest ==
    /\ HART_LOTTERY = TRUE
    /\ lottery = [h \in Harts |-> "none"]
    /\ priv = [h \in Harts |-> "M"]
    /\ csr = [h \in Harts |-> ResetCsr]
    /\ pmp = [h \in Harts |-> {}]
    /\ guestid = [h \in Harts |-> 0]
    /\ iter = [h \in Harts |-> 0]
    /\ cur = [h \in Harts |-> NoTarget]
    /\ REASON_ARRAY = [h \in Harts |-> NoReason]
    /\ msip = [h \in Harts |-> FALSE]
    /\ ipiCount = [h \in Harts |-> 0]
    /\ plic = [priorities |-> 0,
               threshold |-> [c \in Contexts |-> -1],
               enable |-> [c \in Contexts |-> {-1}]]
    /\ staged = [h \in Harts |-> NotStaged]
    /\ args = [h \in Harts |-> NoReason]
    /\ wakes = [h \in Harts |-> 0]
    /\ panicAt = [h \in Harts |-> 0]
    /\ walk = NoWalk

InitCommon ==
    /\ machine \in Machines
    /\ InitRest

\* Every hart enters mstart from _start.
InitHarts ==
    /\ pc = [h \in Harts |-> "mstart"]
    /\ regs = [r \in Regs |-> <<0, 0>>]
    /\ scrub_pc = 0
    /\ guest_dtb = <<0, 0>>
    /\ operand = "a1"

Init ==
    /\ InitCommon
    /\ InitHarts

\* Reset on the machine whose memory is too small for its harts.
InitSmallMemory ==
    /\ machine = SmallMemoryMachine
    /\ InitRest
    /\ InitHarts

(* ------------------------------- mstart -------------------------------- *)

\* pmp::install_pmp_napot(index, flags, base, size)
install_pmp_napot(index, flags, base, size) ==
    [index |-> index, flags |-> flags, base |-> base, size |-> size]

\* Entry 7: pmpaddr7 = all ones, pmpcfg0 |= 0x1f << 56 (NAPOT, R|W|X, not locked)
PmpAll == [index |-> 7, flags |-> {"READ", "WRITE", "EXEC"}, base |-> <<0, 0>>, size |-> -1]

\* Text segment window
PmpText == install_pmp_napot(0, {"LOCK", "READ", "EXEC"}, <<2048, 0>>, 2 * MiB)

\* Shared data segment window
PmpSharedData == install_pmp_napot(1, {"LOCK", "READ", "WRITE"}, <<2050, 0>>, 2 * MiB)

\* pmap::mboot_page_table_pa() >> 12: the boot page table lies in the shared
\* data segment.
MbootPageTablePpn == AddrPage(<<2050, 0>>)

\* Control registers as mstart leaves them before the lottery.
MstartCsr(c) ==
    [c EXCEPT !.mie = MIE_VALUE, !.mpp = "S", !.mepc = "sstart"]

\* Variant of LotteryStore: the swap stores true, leaving the flag set.
LotteryStoreTrue == TRUE

\* HART_LOTTERY.swap(false, SeqCst): the value stored
LotteryStore == FALSE

\* mstart up to and including the swap: control registers, PMP entry 7, then
\* the atomic swap, whose result selects the branch.
LotterySwap(h) ==
    /\ pc[h] = "mstart"
    /\ csr' = [csr EXCEPT ![h] = MstartCsr(@)]
    /\ pmp' = [pmp EXCEPT ![h] = @ \cup {PmpAll}]
    /\ lottery' = [lottery EXCEPT ![h] = IF HART_LOTTERY THEN "won" ELSE "lost"]
    /\ HART_LOTTERY' = LotteryStore
    /\ pc' = [pc EXCEPT ![h] = IF HART_LOTTERY THEN "elected" ELSE "wait_vec"]
    /\ UNCHANGED <<machine, priv, orchVars, ipiVars, devVars, wakeVars, panicAt, scrubVars, walk>>

\* Variant of ElectedSetup: the two PMP windows are not installed.
ElectedSetupNoPmp(h) ==
    /\ pc[h] = "elected"
    /\ csr' = [csr EXCEPT ![h].mtvec = "mtrap_entry",
                          ![h].satp = [mode |-> 8, ppn |-> MbootPageTablePpn]]
    /\ pc' = [pc EXCEPT ![h] = "mret"]
    /\ UNCHANGED <<machine, HART_LOTTERY, lottery, priv, pmp, orchVars, ipiVars, devVars,
                   wakeVars, panicAt, scrubVars, walk>>

\* Elected branch: trap vector, the two locked PMP windows, the boot page
\* table and satp.
ElectedSetup(h) ==
    /\ pc[h] = "elected"
    /\ csr' = [csr EXCEPT ![h].mtvec = "mtrap_entry",
                          ![h].satp = [mode |-> 8, ppn |-> MbootPageTablePpn]]
    /\ pmp' = [pmp EXCEPT ![h] = @ \cup {PmpText, PmpSharedData}]
    /\ pc' = [pc EXCEPT ![h] = "mret"]
    /\ UNCHANGED <<machine, HART_LOTTERY, lottery, priv, orchVars, ipiVars, devVars,
                   wakeVars, panicAt, scrubVars, walk>>

\* mret of the elected hart: privilege drops to mstatus.MPP, control goes to mepc.
ElectedMret(h) ==
    /\ pc[h] = "mret"
    /\ priv' = [priv EXCEPT ![h] = csr[h].mpp]
    /\ pc' = [pc EXCEPT ![h] = csr[h].mepc]
    /\ UNCHANGED <<machine, HART_LOTTERY, lottery, csr, pmp, orchVars, ipiVars, devVars,
                   wakeVars, panicAt, scrubVars, walk>>

\* Losing branch: mtvec = start_hart
WaitInstallVector(h) ==
    /\ pc[h] = "wait_vec"
    /\ csr' = [csr EXCEPT ![h].mtvec = "start_hart"]
    /\ pc' = [pc EXCEPT ![h] = "wait_mie"]
    /\ UNCHANGED <<machine, HART_LOTTERY, lottery, priv, pmp, orchVars, ipiVars, devVars,
                   wakeVars, panicAt, scrubVars, walk>>

\* Losing branch: csrsi mstatus, 0x8, then loop {}
WaitEnableMIE(h) ==
    /\ pc[h] = "wait_mie"
    /\ csr' = [csr EXCEPT ![h].mstatus_mie = TRUE]
    /\ pc' = [pc EXCEPT ![h] = "waiting"]
    /\ UNCHANGED <<machine, HART_LOTTERY, lottery, priv, pmp, orchVars, ipiVars, devVars,
                   wakeVars, panicAt, scrubVars, walk>>

(* ------------------------------- sstart -------------------------------- *)

\* fdt.magic_valid(), line 236
FdtMagicOk(f) == f.magic_valid

\* fdt.version() >= 17 && fdt.last_comp_version() <= 17, line 237
FdtVersionOk(f) == f.version >= 17 /\ f.last_comp_version <= 17

\* Variant of FdtSizeOk: the comparison is not strict.
FdtSizeOkLoose(f) == f.total_size <= FDT_MAX_SIZE

\* fdt.total_size() < 64 * 1024, line 238
FdtSizeOk(f) == f.total_size < FDT_MAX_SIZE

\* Variant of InitrdEndOk: the initrd may end one byte past the hypervisor's
\* segment.
InitrdEndOkLoose(m) == AddrLE(m.initrd_end, AddrAdd(HypervisorEnd(m.physical_memory_offset), 1))

\* machine.initrd_end <= machine.physical_memory_offset + HART_SEGMENT_SIZE, line 248
InitrdEndOk(m) == AddrLE(m.initrd_end, HypervisorEnd(m.physical_memory_offset))

\* Variant of InitrdSizeOk: the comparison is strict.
InitrdSizeOkStrict(m) ==
    /\ AddrLE(m.initrd_start, m.initrd_end)
    /\ AddrDiff(m.initrd_end, m.initrd_start) < HEAP_SIZE

\* machine.initrd_end - machine.initrd_start <= HEAP_SIZE, line 249.  When
\* initrd_end < initrd_start the u64 subtraction overflows: a debug build
\* panics on it and a release build wraps to a value above HEAP_SIZE, so
\* the check fails in both.
InitrdSizeOk(m) ==
    /\ AddrLE(m.initrd_start, m.initrd_end)
    /\ AddrDiff(m.initrd_end, m.initrd_start) <= HEAP_SIZE

\* The line of the first assertion of sstart's prologue that fails, 0 if none.
SstartFailLine(m) ==
    IF ~FdtMagicOk(m.fdt) THEN 236
    ELSE IF ~FdtVersionOk(m.fdt) THEN 237
    ELSE IF ~FdtSizeOk(m.fdt) THEN 238
    ELSE IF ~InitrdEndOk(m) THEN 248
    ELSE IF ~InitrdSizeOk(m) THEN 249
    ELSE 0

\* let mut guestid = 1
FirstGuestId == 1

\* sstart from its entry to the head of the dispatch loop: the device tree
\* and initrd checks, memory subsystem, PLIC source priorities.  A failed
\* assertion ends in the panic handler, which prints and loops forever.
SstartChecks(h) ==
    /\ pc[h] = "sstart"
    /\ LET line == SstartFailLine(machine) IN
       IF line # 0
       THEN /\ pc' = [pc EXCEPT ![h] = "panicked"]
            /\ panicAt' = [panicAt EXCEPT ![h] = line]
            /\ UNCHANGED <<orchVars, plic>>
       ELSE /\ pc' = [pc EXCEPT ![h] = "loop"]
            /\ guestid' = [guestid EXCEPT ![h] = FirstGuestId]
            /\ iter' = [iter EXCEPT ![h] = 1]
            /\ plic' = [plic EXCEPT !.priorities = 1]
            /\ UNCHANGED <<cur, panicAt>>
    /\ UNCHANGED <<machine, HART_LOTTERY, lottery, priv, csr, pmp, ipiVars, staged,
                   wakeVars, scrubVars, walk>>

\* Variant of NextIndex: the filter on the orchestrator's own id is missing.
NextIndexNoFilter(hs, from, self) ==
    IF from <= Len(hs) THEN from ELSE 0

\* machine.harts.iter().filter(|h| h.hartid != hartid): index of the next
\* element at or after `from` that passes the filter, 0 when exhausted.
NextIndex(hs, from, self) ==
    LET c == { i \in from .. Len(hs) : hs[i].hartid # self } IN
    IF c = {} THEN 0 ELSE CHOOSE i \in c : \A k \in c : i <= k

\* Variant of HartBase: the guest id is taken as zero-based.
HartBaseZeroBased(pmo, g) == AddrAddMiB(pmo, HART_SEGMENT_SIZE * (g - 1))

\* hart_base_pa = machine.physical_memory_offset + HART_SEGMENT_SIZE * guestid
HartBase(pmo, g) == AddrAddMiB(pmo, HART_SEGMENT_SIZE * g)

\* Variant of VirtioWindow: the guest id is ignored, every guest reads the
\* first four descriptors.
VirtioWindowFirstFour(m, g) ==
    { i \in 1 .. Len(m.virtio) :
        \E j \in 0 .. (VIRTIO_PER_GUEST - 1) : i - 1 = j }

\* The descriptors (1-based positions) read for guest g:
\* index = (guestid-1) * 4 + j for j in 0..4, kept when index < virtio.len()
VirtioWindow(m, g) ==
    { i \in 1 .. Len(m.virtio) :
        \E j \in 0 .. (VIRTIO_PER_GUEST - 1) : i - 1 = (g - 1) * VIRTIO_PER_GUEST + j }

\* assert!(irq < 32) for every descriptor of the window
IrqsOk(m, g) == \A i \in VirtioWindow(m, g) : m.virtio[i].irq < IRQ_LIMIT

\* irq_mask |= 1u32 << irq, as the set of bits that are set
IrqMask(m, g) == { m.virtio[i].irq : i \in VirtioWindow(m, g) }

\* Size of the boot page table at hart_base_pa: the bytes below the device
\* tree copy at hart_base_pa + 4096.
BOOT_PAGE_TABLE_SIZE == 4096

\* The source of the initrd copy: [initrd_start, initrd_end)
InitrdSource(m) == Region(m.initrd_start, m.initrd_end)

\* The regions lines 280-286 write for a staged record: boot page table,
\* device tree copy, initrd copy.
StageWrites(rec) ==
    { Region(rec.page_table, AddrAdd(rec.page_table, BOOT_PAGE_TABLE_SIZE)),
      Region(rec.dtb.dst, AddrAdd(rec.dtb.dst, rec.dtb.len)),
      Region(rec.initrd.dst, AddrAdd(rec.initrd.dst, rec.initrd.len)) }

\* What the copy of lines 284-286 reads at [initrd_start, initrd_end): the
\* original image, unless a write of an earlier iteration or the page table
\* or device tree write of this iteration (lines 280-283) went over it.
InitrdRead(m, base) ==
    LET earlier == UNION { StageWrites(staged[k]) :
                             k \in { x \in DOMAIN staged : staged[x].tag = "staged" } }
        here == { Region(base, AddrAdd(base, BOOT_PAGE_TABLE_SIZE)),
                  Region(AddrAdd(base, 4096),
                         AddrAdd(AddrAdd(base, 4096), m.fdt.total_size)) }
    IN IF \E r \in earlier \cup here : Overlaps(r, InitrdSource(m))
       THEN "clobbered" ELSE "original"

\* What lines 280-286 write into the segment at hart_base_pa.
StageRecord(m, g, base) ==
    [tag |-> "staged", guestid |-> g, hart_base_pa |-> base,
     page_table |-> base,
     dtb |-> [dst |-> AddrAdd(base, 4096), len |-> m.fdt.total_size],
     initrd |-> [dst |-> AddrAddMiB(base, HEAP_OFFSET),
                 len |-> AddrDiff(m.initrd_end, m.initrd_start),
                 content |-> InitrdRead(m, base)]]

\* Variant of LoopSucc: the CLINT write is placed before the mailbox store.
LoopSuccIpiFirst(p) ==
    CASE p = "loop" -> "loop_ipi"
      [] p = "loop_ipi" -> "loop_mailbox"
      [] p = "loop_mailbox" -> "loop"

\* Statement order of the loop body: the stores into the hart's segment and
\* PLIC context (lines 265-286), then the mailbox store (289-297), then the
\* CLINT write and the counter (298-300), then the loop head.
LoopSucc(p) ==
    CASE p = "loop" -> "loop_mailbox"
      [] p = "loop_mailbox" -> "loop_ipi"
      [] p = "loop_ipi" -> "loop"

\* Variant of NextIter: the iterator does not advance, so the same hart is
\* dispatched again.
NextIterStuck(i) == i

\* The iterator moves past the element just handled.
NextIter(i) == i + 1

\* Variant of PlicTarget: every hart's registers are those of context 1.
PlicTargetShared(t) == 1

\* The PLIC context whose threshold and enable registers lines 277-278
\* write: the plic_context of the hart the loop is at.
PlicTarget(t) == t.plic_context

\* One loop iteration up to the copies (lines 264-286): the next hart other
\* than the orchestrator, its base, its irq mask (or the panic of line 272),
\* its PLIC context registers, its boot page table, device tree and initrd.
LoopStage(h) ==
    /\ pc[h] = "loop"
    /\ NextIndex(machine.harts, iter[h], h) # 0
    /\ guestid[h] <= MaxGuestId
    /\ LET i == NextIndex(machine.harts, iter[h], h)
           t == machine.harts[i]
           base == HartBase(machine.physical_memory_offset, guestid[h])
       IN IF ~IrqsOk(machine, guestid[h])
          THEN /\ pc' = [pc EXCEPT ![h] = "panicked"]
               /\ panicAt' = [panicAt EXCEPT ![h] = 272]
               /\ UNCHANGED <<iter, cur, devVars>>
          ELSE /\ pc' = [pc EXCEPT ![h] = LoopSucc("loop")]
               /\ iter' = [iter EXCEPT ![h] = i]
               /\ cur' = [cur EXCEPT ![h] = [hartid |-> t.hartid,
                                             plic_context |-> t.plic_context,
                                             hart_base_pa |-> base]]
               /\ plic' = [plic EXCEPT !.threshold[PlicTarget(t)] = 0,
                                       !.enable[PlicTarget(t)] = IrqMask(machine, guestid[h])]
               /\ staged' = [staged EXCEPT ![t.hartid] =
                                StageRecord(machine, guestid[h], base)]
               /\ UNCHANGED panicAt
    /\ UNCHANGED <<machine, HART_LOTTERY, lottery, priv, csr, pmp, guestid, ipiVars,
                   wakeVars, scrubVars, walk>>

\* Reason::EnterSupervisor { a0, a1, a2, a3, sp, satp, mepc } of lines 289-297
EnterSupervisor(hartid, base, g) ==
    [tag |-> "EnterSupervisor",
     a0 |-> hartid,
     a1 |-> AddrAdd(base, 4096),
     a2 |-> base,
     a3 |-> g,
     sp |-> [pa |-> AddrAddMiB(base, 4), plus |-> "DIRECT_MAP_OFFSET"],
     satp |-> [mode |-> 8, ppn |-> AddrPage(base)],
     mepc |-> "hart_entry"]

\* Variant of MailboxSlot: the orchestrator stores into its own slot.
MailboxSlotOwn(h) == h

\* The slot of REASON_ARRAY the orchestrator h stores into: the loop's hartid
MailboxSlot(h) == cur[h].hartid

\* *REASON_ARRAY[hartid as usize].lock() = Some(...), lines 289-297
LoopMailbox(h) ==
    /\ pc[h] = "loop_mailbox"
    /\ MailboxSlot(h) \in Harts
    /\ REASON_ARRAY' = [REASON_ARRAY EXCEPT ![MailboxSlot(h)] =
                            EnterSupervisor(cur[h].hartid, cur[h].hart_base_pa, guestid[h])]
    /\ pc' = [pc EXCEPT ![h] = LoopSucc("loop_mailbox")]
    /\ UNCHANGED <<machine, HART_LOTTERY, lottery, priv, csr, pmp, orchVars, msip,
                   ipiCount, devVars, wakeVars, panicAt, scrubVars, walk>>

\* Variant of NextGuestId: the increment is missing.
NextGuestIdSame(g) == g

\* guestid += 1
NextGuestId(g) == g + 1

\* Variant of LoopIpi: the CLINT write has an effect only on a hart that
\* already waits; a signal sent earlier is dropped.
LoopIpiLossy(h) ==
    /\ pc[h] = "loop_ipi"
    /\ msip' = [msip EXCEPT ![cur[h].hartid] = (pc[cur[h].hartid] = "waiting")]
    /\ ipiCount' = [ipiCount EXCEPT ![cur[h].hartid] = @ + 1]
    /\ guestid' = [guestid EXCEPT ![h] = NextGuestId(@)]
    /\ iter' = [iter EXCEPT ![h] = NextIter(@)]
    /\ pc' = [pc EXCEPT ![h] = LoopSucc("loop_ipi")]
    /\ UNCHANGED <<machine, HART_LOTTERY, lottery, priv, csr, pmp, cur, REASON_ARRAY,
                   devVars, wakeVars, panicAt, scrubVars, walk>>

\* *(clint_address + hartid*4) = 1, then guestid += 1 (lines 298-300)
LoopIpi(h) ==
    /\ pc[h] = "loop_ipi"
    /\ msip' = [msip EXCEPT ![cur[h].hartid] = TRUE]
    /\ ipiCount' = [ipiCount EXCEPT ![cur[h].hartid] = @ + 1]
    /\ guestid' = [guestid EXCEPT ![h] = NextGuestId(@)]
    /\ iter' = [iter EXCEPT ![h] = NextIter(@)]
    /\ pc' = [pc EXCEPT ![h] = LoopSucc("loop_ipi")]
    /\ UNCHANGED <<machine, HART_LOTTERY, lottery, priv, csr, pmp, cur, REASON_ARRAY,
                   devVars, wakeVars, panicAt, scrubVars, walk>>

\* The iterator is exhausted: loop {} of line 302
LoopExit(h) ==
    /\ pc[h] = "loop"
    /\ NextIndex(machine.harts, iter[h], h) = 0
    /\ pc' = [pc EXCEPT ![h] = "park"]
    /\ UNCHANGED <<machine, HART_LOTTERY, lottery, priv, csr, pmp, orchVars, ipiVars,
                   devVars, wakeVars, panicAt, scrubVars, walk>>

(* ---------------------------- wake handler ----------------------------- *)

\* Hart h takes the machine software interrupt into start_hart: its CLINT
\* bit is pending, mie.MSIE is set, mtvec is the wake handler, and either it
\* runs in machine mode with mstatus.MIE set (the loop {} of line 221) or it
\* runs below machine mode, where machine interrupts are always taken.
WakePending(h) ==
    /\ msip[h]
    /\ Bit(csr[h].mie, MSI_BIT)
    /\ csr[h].mtvec = "start_hart"
    /\ \/ priv[h] = "M" /\ csr[h].mstatus_mie /\ pc[h] = "waiting"
       \/ priv[h] # "M"

\* The slot the handler running on hart h takes: its own
OwnSlot(h) == h

\* start_hart, the handler at mtvec of a waiting hart: acknowledge the
\* interrupt, take the reason out of the hart's own slot (leaving it empty);
\* an empty slot is fatal; otherwise install the PMP windows, apply satp,
\* mepc and the argument registers, and return to supervisor mode.
StartHart(h) ==
    /\ WakePending(h)
    /\ msip' = [msip EXCEPT ![h] = FALSE]
    /\ wakes' = [wakes EXCEPT ![h] = @ + 1]
    /\ REASON_ARRAY' = [REASON_ARRAY EXCEPT ![OwnSlot(h)] = NoReason]
    /\ LET r == REASON_ARRAY[OwnSlot(h)] IN
       IF r.tag = "EnterSupervisor"
       THEN /\ args' = [args EXCEPT ![h] = r]
            /\ pmp' = [pmp EXCEPT ![h] = @ \cup {PmpText, PmpSharedData}]
            /\ csr' = [csr EXCEPT ![h].satp = r.satp, ![h].mepc = r.mepc]
            /\ priv' = [priv EXCEPT ![h] = csr[h].mpp]
            /\ pc' = [pc EXCEPT ![h] = r.mepc]
       ELSE /\ pc' = [pc EXCEPT ![h] = "halted"]
            /\ priv' = [priv EXCEPT ![h] = "M"]
            /\ csr' = [csr EXCEPT ![h].mstatus_mie = FALSE]
            /\ UNCHANGED <<args, pmp>>
    /\ UNCHANGED <<machine, HART_LOTTERY, lottery, orchVars, ipiCount, devVars, panicAt,
                   scrubVars, walk>>

(* ------------------------------ hart_entry ----------------------------- *)

\* The device tree header hart_entry reads at its argument device_tree_blob:
\* the copy sstart staged there, when there is one.
FdtAt(h, a) ==
    IF staged[h].tag = "staged" /\ staged[h].dtb.dst = a
    THEN machine.fdt
    ELSE [magic_valid |-> FALSE, version |-> 0, last_comp_version |-> 0, total_size |-> 0]

\* The line of the first failing assertion of lines 313-314, 0 if none.
HartEntryFailLine(f) ==
    IF ~FdtMagicOk(f) THEN 313
    ELSE IF ~FdtVersionOk(f) THEN 314
    ELSE 0

\* Lines 307-315: stvec, sie, sstatus.SUM set, the device tree re-parsed.
HartEntryParse(h) ==
    /\ pc[h] = "hart_entry"
    /\ csr' = [csr EXCEPT ![h].sum = TRUE]
    /\ LET line == HartEntryFailLine(FdtAt(h, args[h].a1)) IN
       IF line # 0
       THEN /\ pc' = [pc EXCEPT ![h] = "panicked"]
            /\ panicAt' = [panicAt EXCEPT ![h] = line]
       ELSE /\ pc' = [pc EXCEPT ![h] = "he_init"]
            /\ UNCHANGED panicAt
    /\ UNCHANGED <<machine, HART_LOTTERY, lottery, priv, pmp, orchVars, ipiVars, devVars,
                   wakeVars, scrubVars, walk>>

\* Variant of PanicPc: the panic stops every hart of the machine.
PanicPcAll(h, line) == [k \in Harts |-> "panicked"]

\* What a hart's panic does to the rest of the machine: nothing.  The panic
\* handler prints and enters loop {} on the panicking hart.
PanicPc(h, line) == [pc EXCEPT ![h] = "panicked"]

\* Line 318: pmap::init(hart_base_pa, &machine).  The memory subsystem is an
\* external collaborator whose assertions may fail for this hart.
HartEntryInit(h) ==
    /\ pc[h] = "he_init"
    /\ \E ok \in BOOLEAN :
         IF ok
         THEN /\ pc' = [pc EXCEPT ![h] = "he_load"]
              /\ UNCHANGED panicAt
         ELSE /\ pc' = PanicPc(h, 318)
              /\ panicAt' = [panicAt EXCEPT ![h] = 318]
    /\ UNCHANGED <<machine, HART_LOTTERY, lottery, priv, csr, pmp, orchVars, ipiVars,
                   devVars, wakeVars, scrubVars, walk>>

\* sum::access_user_memory on entry: sstatus.SUM is set before the closure
\* runs.
SumEnter(c) == [c EXCEPT !.sum = TRUE]

\* sum::access_user_memory on return: sstatus.SUM is cleared after the
\* closure has returned.
SumExit(c) == [c EXCEPT !.sum = FALSE]

\* Lines 321-326 as one step: the guest image is loaded from the staged
\* initrd inside sum::access_user_memory, which leaves sstatus.SUM clear;
\* the ELF loader may reject the image.
HartEntryLoad(h) ==
    /\ pc[h] = "he_load"
    /\ csr' = [csr EXCEPT ![h] = SumExit(SumEnter(@))]
    /\ \E ok \in BOOLEAN :
         IF ok
         THEN /\ pc' = [pc EXCEPT ![h] = "he_ctx"]
              /\ UNCHANGED panicAt
         ELSE /\ pc' = PanicPc(h, 321)
              /\ panicAt' = [panicAt EXCEPT ![h] = 321]
    /\ UNCHANGED <<machine, HART_LOTTERY, lottery, priv, pmp, orchVars, ipiVars,
                   devVars, wakeVars, scrubVars, walk>>

\* Lines 329-339 as one step: the guest device tree is written and masked
\* inside sum::access_user_memory, then context::initialize.
HartEntryContext(h) ==
    /\ pc[h] = "he_ctx"
    /\ csr' = [csr EXCEPT ![h] = SumExit(SumEnter(@))]
    /\ pc' = [pc EXCEPT ![h] = "he_sret"]
    /\ UNCHANGED <<machine, HART_LOTTERY, lottery, priv, pmp, orchVars, ipiVars,
                   devVars, wakeVars, panicAt, scrubVars, walk>>

\* Line 321: sum::access_user_memory is entered for the image load.
HartEntryLoadEnter(h) ==
    /\ pc[h] = "he_load"
    /\ csr' = [csr EXCEPT ![h] = SumEnter(@)]
    /\ pc' = [pc EXCEPT ![h] = "he_load_in"]
    /\ UNCHANGED <<machine, HART_LOTTERY, lottery, priv, pmp, orchVars, ipiVars,
                   devVars, wakeVars, panicAt, scrubVars, walk>>

\* Lines 321-326 from inside the section: elf::load_elf runs and the section
\* is left with sstatus.SUM clear; when the loader rejects the image the
\* panic handler loops inside the section.
HartEntryLoadBody(h) ==
    /\ pc[h] = "he_load_in"
    /\ \E ok \in BOOLEAN :
         IF ok
         THEN /\ pc' = [pc EXCEPT ![h] = "he_ctx"]
              /\ csr' = [csr EXCEPT ![h] = SumExit(@)]
              /\ UNCHANGED panicAt
         ELSE /\ pc' = PanicPc(h, 321)
              /\ panicAt' = [panicAt EXCEPT ![h] = 321]
              /\ UNCHANGED csr
    /\ UNCHANGED <<machine, HART_LOTTERY, lottery, priv, pmp, orchVars, ipiVars,
                   devVars, wakeVars, scrubVars, walk>>

\* Line 329: sum::access_user_memory is entered for the guest device tree.
HartEntryCopyEnter(h) ==
    /\ pc[h] = "he_ctx"
    /\ csr' = [csr EXCEPT ![h] = SumEnter(@)]
    /\ pc' = [pc EXCEPT ![h] = "he_copy_in"]
    /\ UNCHANGED <<machine, HART_LOTTERY, lottery, priv, pmp, orchVars, ipiVars,
                   devVars, wakeVars, panicAt, scrubVars, walk>>

\* Lines 329-339 from inside the section: the guest device tree is written,
\* masked and parsed, the section is left, then context::initialize.
HartEntryCopyBody(h) ==
    /\ pc[h] = "he_copy_in"
    /\ csr' = [csr EXCEPT ![h] = SumExit(@)]
    /\ pc' = [pc EXCEPT ![h] = "he_sret"]
    /\ UNCHANGED <<machine, HART_LOTTERY, lottery, priv, pmp, orchVars, ipiVars,
                   devVars, wakeVars, panicAt, scrubVars, walk>>

\* Lines 342-374: the register scrub and sret into the guest, which runs in
\* user mode.
HartEntrySret(h) ==
    /\ pc[h] = "he_sret"
    /\ priv' = [priv EXCEPT ![h] = "U"]
    /\ pc' = [pc EXCEPT ![h] = "guest"]
    /\ UNCHANGED <<machine, HART_LOTTERY, lottery, csr, pmp, orchVars, ipiVars,
                   devVars, wakeVars, panicAt, scrubVars, walk>>

(* ---------------------------- specification ---------------------------- *)

HartStep(h) ==
    \/ LotterySwap(h)
    \/ ElectedSetup(h)
    \/ ElectedMret(h)
    \/ WaitInstallVector(h)
    \/ WaitEnableMIE(h)
    \/ SstartChecks(h)
    \/ LoopStage(h)
    \/ LoopMailbox(h)
    \/ LoopIpi(h)
    \/ LoopExit(h)
    \/ StartHart(h)
    \/ HartEntryParse(h)
    \/ HartEntryInit(h)
    \/ HartEntryLoad(h)
    \/ HartEntryContext(h)
    \/ HartEntrySret(h)

Next == \E h \in Harts : HartStep(h)

Spec == Init /\ [][Next]_vars

\* Every hart is a physical core that keeps executing: a hart that can take
\* a step eventually takes one.
FairSpec == Spec /\ \A h \in Harts : WF_vars(HartStep(h))

\* A wake signal nobody owes the hart: something writes the CLINT trigger
\* register of a hart whose handler has already run.
SpuriousSignal(h) ==
    /\ wakes[h] >= 1
    /\ wakes[h] < MaxWakes
    /\ ~msip[h]
    /\ msip' = [msip EXCEPT ![h] = TRUE]
    /\ UNCHANGED <<machine, HART_LOTTERY, hartVars, orchVars, REASON_ARRAY, ipiCount,
                   devVars, wakeVars, panicAt, scrubVars, walk>>

NextSpurious == \E h \in Harts : HartStep(h) \/ SpuriousSignal(h)

SpecSpurious == Init /\ [][NextSpurious]_vars

\* The program with hart_entry's two guarded sections entered and left in
\* separate steps.
HartStepSum(h) ==
    \/ LotterySwap(h)
    \/ ElectedSetup(h)
    \/ ElectedMret(h)
    \/ WaitInstallVector(h)
    \/ WaitEnableMIE(h)
    \/ SstartChecks(h)
    \/ LoopStage(h)
    \/ LoopMailbox(h)
    \/ LoopIpi(h)
    \/ LoopExit(h)
    \/ StartHart(h)
    \/ HartEntryParse(h)
    \/ HartEntryInit(h)
    \/ HartEntryLoadEnter(h)
    \/ HartEntryLoadBody(h)
    \/ HartEntryCopyEnter(h)
    \/ HartEntryCopyBody(h)
    \/ HartEntrySret(h)

NextSum == \E h \in Harts : HartStepSum(h)

SpecSum == Init /\ [][NextSum]_vars

\* The program on the machine with too little memory for its harts.
SpecSmallMemory == InitSmallMemory /\ [][Next]_vars

(* ------------------- hart_entry's exit, by instruction ------------------ *)

\* Variant of ScrubProgram: li s1, 0 is missing.
ScrubProgramNoS1 ==
    << [op |-> "mv", rd |-> "a1"],
       [op |-> "li", rd |-> "ra"],  [op |-> "li", rd |-> "sp"],
       [op |-> "li", rd |-> "gp"],  [op |-> "li", rd |-> "tp"],
       [op |-> "li", rd |-> "t0"],  [op |-> "li", rd |-> "t1"],
       [op |-> "li", rd |-> "t2"],  [op |-> "li", rd |-> "s0"],
       [op |-> "li", rd |-> "a0"],
       [op |-> "li", rd |-> "a2"],  [op |-> "li", rd |-> "a3"],
       [op |-> "li", rd |-> "a4"],  [op |-> "li", rd |-> "a5"],
       [op |-> "li", rd |-> "a6"],  [op |-> "li", rd |-> "a7"],
       [op |-> "li", rd |-> "s2"],  [op |-> "li", rd |-> "s3"],
       [op |-> "li", rd |-> "s4"],  [op |-> "li", rd |-> "s5"],
       [op |-> "li", rd |-> "s6"],  [op |-> "li", rd |-> "s7"],
       [op |-> "li", rd |-> "s8"],  [op |-> "li", rd |-> "s9"],
       [op |-> "li", rd |-> "s10"], [op |-> "li", rd |-> "s11"],
       [op |-> "li", rd |-> "t3"],  [op |-> "li", rd |-> "t4"],
       [op |-> "li", rd |-> "t5"],  [op |-> "li", rd |-> "t6"],
       [op |-> "sret", rd |-> "none"] >>

\* The asm block of lines 342-374: mv a1, $0, thirty li rd, 0, then sret.
ScrubProgram ==
    << [op |-> "mv", rd |-> "a1"],
       [op |-> "li", rd |-> "ra"],  [op |-> "li", rd |-> "sp"],
       [op |-> "li", rd |-> "gp"],  [op |-> "li", rd |-> "tp"],
       [op |-> "li", rd |-> "t0"],  [op |-> "li", rd |-> "t1"],
       [op |-> "li", rd |-> "t2"],  [op |-> "li", rd |-> "s0"],
       [op |-> "li", rd |-> "s1"],  [op |-> "li", rd |-> "a0"],
       [op |-> "li", rd |-> "a2"],  [op |-> "li", rd |-> "a3"],
       [op |-> "li", rd |-> "a4"],  [op |-> "li", rd |-> "a5"],
       [op |-> "li", rd |-> "a6"],  [op |-> "li", rd |-> "a7"],
       [op |-> "li", rd |-> "s2"],  [op |-> "li", rd |-> "s3"],
       [op |-> "li", rd |-> "s4"],  [op |-> "li", rd |-> "s5"],
       [op |-> "li", rd |-> "s6"],  [op |-> "li", rd |-> "s7"],
       [op |-> "li", rd |-> "s8"],  [op |-> "li", rd |-> "s9"],
       [op |-> "li", rd |-> "s10"], [op |-> "li", rd |-> "s11"],
       [op |-> "li", rd |-> "t3"],  [op |-> "li", rd |-> "t4"],
       [op |-> "li", rd |-> "t5"],  [op |-> "li", rd |-> "t6"],
       [op |-> "sret", rd |-> "none"] >>

\* guest_dtb = (max_addr | 0x1fffff) + 1, line 325
GuestDtb(max_addr) == <<(max_addr[1] - (max_addr[1] % 2)) + 2, 0>>

\* Highest addresses a loaded guest image may report.
MaxAddrs == { <<2053, 123>>, <<2054, 0>>, <<2057, MiB - 1>>, <<2048, 1>> }

\* What hart_entry may have left in a register: a hypervisor address.
Residue == <<2050, 4096>>

\* The hart whose exit from hart_entry is followed by instruction.
ScrubHart == 0

\* The hart stands at line 342: guest_dtb is in the register the compiler
\* chose for the input operand, every other register holds residue.
InitScrub ==
    /\ InitCommon
    /\ machine = GoodMachine(AscendingHarts)
    /\ pc = [h \in Harts |-> IF h = ScrubHart THEN "he_sret" ELSE "mstart"]
    /\ scrub_pc = 0
    /\ \E m \in MaxAddrs : guest_dtb = GuestDtb(m)
    /\ operand \in Regs
    /\ regs = [r \in Regs |-> IF r = operand THEN guest_dtb ELSE Residue]

\* One instruction of the block.
ScrubStep ==
    /\ pc[ScrubHart] = "he_sret"
    /\ scrub_pc < Len(ScrubProgram)
    /\ LET ins == ScrubProgram[scrub_pc + 1] IN
       /\ regs' = IF ins.op = "mv" THEN [regs EXCEPT ![ins.rd] = regs[operand]]
                  ELSE IF ins.op = "li" THEN [regs EXCEPT ![ins.rd] = <<0, 0>>]
                  ELSE regs
       /\ pc' = IF ins.op = "sret" THEN [pc EXCEPT ![ScrubHart] = "guest"] ELSE pc
       /\ priv' = IF ins.op = "sret" THEN [priv EXCEPT ![ScrubHart] = "U"] ELSE priv
    /\ scrub_pc' = scrub_pc + 1
    /\ UNCHANGED <<machine, HART_LOTTERY, lottery, csr, pmp, orchVars, ipiVars, devVars,
                   wakeVars, panicAt, guest_dtb, operand, walk>>

NextScrub == ScrubStep

SpecScrub == InitScrub /\ [][NextScrub]_vars

(* --------------------------- boot page table --------------------------- *)

\* a | b on unsigned integers
RECURSIVE BitOr(_, _)
BitOr(a, b) ==
    IF a = 0 THEN b
    ELSE IF b = 0 THEN a
    ELSE (IF a % 2 = 1 \/ b % 2 = 1 THEN 1 ELSE 0) + 2 * BitOr(a \div 2, b \div 2)

\* pmap::mboot_page_table_pa(): the boot page table lies at the start of the
\* shared data segment.
MbootPageTablePa == <<2050, 0>>

\* ((mboot_page_table_pa() + 4096) >> 2) | 0x01, lines 195 and 197
PointerEntry ==
    LET a == AddrAdd(MbootPageTablePa, 4096)
    IN BitOr(a[1] * (MiB \div 4) + (a[2] \div 4), 1)

\* Variant of SecondLevelEntry: the index is shifted by 20 instead of 19.
SecondLevelEntryShift20(i) == BitOr(536870912 + i * 1048576, 199)

\* (0x20000000 + (i<<19)) | 0xc7, line 200
SecondLevelEntry(i) == BitOr(536870912 + i * 524288, 199)

\* The 64-bit words of the two pages at mboot_page_table_pa() that lines
\* 194-201 write, by word index (byte offset / 8), in statement order.
BootPageTableWrites ==
    << <<0, BitOr(0, 207)>>,             \* *(pt)      = 0x00000000 | 0xcf
       <<2, PointerEntry>>,              \* *(pt+16)   = ((pt + 4096) >> 2) | 0x01
       <<3, BitOr(805306368, 207)>>,     \* *(pt+24)   = 0x30000000 | 0xcf
       <<511, PointerEntry>>,            \* *(pt+4088) = ((pt + 4096) >> 2) | 0x01
       <<512, BitOr(536870912, 203)>> >> \* *(pt+4096) = 0x20000000 | 0xcb
    \o [i \in 1 .. 511 |-> <<512 + i, SecondLevelEntry(i)>>]

\* What word w holds after the writes of a list, made in order: the value of
\* the last write to w; a word not written reads 0.
LastWrite(ws, w) ==
    LET ks == { k \in 1 .. Len(ws) : ws[k][1] = w } IN
    IF ks = {} THEN 0
    ELSE ws[CHOOSE k \in ks : \A j \in ks : j <= k][2]

\* The two pages as mstart leaves them.
BootPageTable == [w \in 0 .. 1023 |-> LastWrite(BootPageTableWrites, w)]

\* The word indices mstart writes.
WrittenWords == { BootPageTableWrites[k][1] : k \in 1 .. Len(BootPageTableWrites) }

\* The page table entry at index idx of the physical page ppn.
PteAt(ppn, idx) ==
    IF ppn = AddrPage(MbootPageTablePa) THEN BootPageTable[idx]
    ELSE IF ppn = AddrPage(MbootPageTablePa) + 1 THEN BootPageTable[512 + idx]
    ELSE 0

\* Fields of an Sv39 page table entry: V, R, W, X are bits 0..3, the PPN is
\* bits 10..53.
PteValid(v) == Bit(v, 0)

PteLeaf(v) == Bit(v, 1) \/ Bit(v, 3)

PteReserved(v) == ~Bit(v, 1) /\ Bit(v, 2)

PtePpn(v) == v \div 1024

\* A virtual address: bits 63..39 all equal to `upper`, bits 38..0 given as
\* <<MiB, byte offset>>.
VA(upper, low) == [upper |-> upper, low |-> low]

\* VPN[level] of a virtual address
Vpn(va, level) ==
    CASE level = 2 -> va.low[1] \div 1024
      [] level = 1 -> (va.low[1] % 1024) \div 2
      [] level = 0 -> (va.low[1] % 2) * 256 + (va.low[2] \div 4096)

\* Number of 4 KiB pages a leaf at a level maps.
LevelPages(level) == CASE level = 2 -> 262144 [] level = 1 -> 512 [] level = 0 -> 1

\* The offset of a virtual address inside a page of a level, as <<MiB, byte>>.
PageOffset(va, level) ==
    CASE level = 2 -> <<va.low[1] % 1024, va.low[2]>>
      [] level = 1 -> <<va.low[1] % 2, va.low[2]>>
      [] level = 0 -> <<0, va.low[2] % 4096>>

NoTranslation == [ok |-> FALSE, pa |-> <<0, 0>>]

\* The Sv39 walk from the table page ppn at a level: an invalid or reserved
\* entry or a misaligned superpage faults; a leaf gives the physical
\* address; a pointer leads to the next level.
RECURSIVE WalkFrom(_, _, _)
WalkFrom(ppn, level, va) ==
    LET v == PteAt(ppn, Vpn(va, level)) IN
    IF ~PteValid(v) \/ PteReserved(v) THEN NoTranslation
    ELSE IF PteLeaf(v)
         THEN IF PtePpn(v) % LevelPages(level) # 0 THEN NoTranslation
              ELSE LET off == PageOffset(va, level) IN
                   [ok |-> TRUE,
                    pa |-> <<(PtePpn(v) \div 256) + off[1],
                             (PtePpn(v) % 256) * 4096 + off[2]>>]
         ELSE IF level = 0 THEN NoTranslation
              ELSE WalkFrom(PtePpn(v), level - 1, va)

\* Sv39 translation under a satp value: bits 63..39 must equal bit 38.
Translate(satp, va) ==
    IF satp.mode # 8 THEN [ok |-> TRUE, pa |-> va.low]
    ELSE IF (va.upper = 1) # (va.low[1] >= 262144) THEN NoTranslation
    ELSE WalkFrom(satp.ppn, 2, va)

\* The virtual addresses the boot page table is built for: the low range
\* from 0, the hypervisor range from 0x80000000 and its alias from
\* 0xffffffffc0000000.
RegionBase(r) ==
    CASE r = "low" -> VA(0, <<0, 0>>)
      [] r = "hyp" -> VA(0, <<2048, 0>>)
      [] r = "alias" -> VA(1, <<523264, 0>>)

Regions == { "low", "hyp", "alias" }

\* Offsets inside a range of 1 GiB: every MiB, with the first and last bytes
\* of its first 4 KiB page and its last byte.
Offsets == { <<m, b>> : m \in 0 .. 1023, b \in { 0, 4095, 4096, MiB - 1 } }

\* The hart whose translations are followed.
WalkHart == 0

\* The hart has won the lottery and stands at the elected branch of mstart.
InitWalk ==
    /\ machine = GoodMachine(AscendingHarts)
    /\ HART_LOTTERY = FALSE
    /\ lottery = [h \in Harts |-> IF h = WalkHart THEN "won" ELSE "none"]
    /\ priv = [h \in Harts |-> "M"]
    /\ csr = [h \in Harts |-> IF h = WalkHart THEN MstartCsr(ResetCsr) ELSE ResetCsr]
    /\ pmp = [h \in Harts |-> IF h = WalkHart THEN {PmpAll} ELSE {}]
    /\ guestid = [h \in Harts |-> 0]
    /\ iter = [h \in Harts |-> 0]
    /\ cur = [h \in Harts |-> NoTarget]
    /\ REASON_ARRAY = [h \in Harts |-> NoReason]
    /\ msip = [h \in Harts |-> FALSE]
    /\ ipiCount = [h \in Harts |-> 0]
    /\ plic = [priorities |-> 0,
               threshold |-> [c \in Contexts |-> -1],
               enable |-> [c \in Contexts |-> {-1}]]
    /\ staged = [h \in Harts |-> NotStaged]
    /\ args = [h \in Harts |-> NoReason]
    /\ wakes = [h \in Harts |-> 0]
    /\ panicAt = [h \in Harts |-> 0]
    /\ walk = NoWalk
    /\ pc = [h \in Harts |-> IF h = WalkHart THEN "elected" ELSE "mstart"]
    /\ regs = [r \in Regs |-> <<0, 0>>]
    /\ scrub_pc = 0
    /\ guest_dtb = <<0, 0>>
    /\ operand = "a1"

\* The elected hart, in supervisor mode at the entry of sstart with satp
\* set, accesses a virtual address of one of the three ranges.  One access
\* is followed: the table does not change, so a later one translates alike.
Access ==
    /\ pc[WalkHart] = "sstart"
    /\ priv[WalkHart] = "S"
    /\ walk = NoWalk
    /\ \E r \in Regions, o \in Offsets :
         LET b == RegionBase(r)
             va == VA(b.upper, <<b.low[1] + o[1], o[2]>>)
         IN walk' = [tag |-> "done", region |-> r, offset |-> o, va |-> va,
                     result |-> Translate(csr[WalkHart].satp, va)]
    /\ UNCHANGED <<machine, HART_LOTTERY, hartVars, orchVars, ipiVars, devVars, wakeVars,
                   panicAt, scrubVars>>

NextWalk == ElectedSetup(WalkHart) \/ ElectedMret(WalkHart) \/ Access

SpecWalk == InitWalk /\ [][NextWalk]_vars

(* ================================ claims ================================ *)

\* Places of the elected hart's path and of a losing hart's path.
ElectedPcs == { "elected", "mret", "sstart", "loop", "loop_mailbox", "loop_ipi", "park" }

WaitingPcs == { "wait_vec", "wait_mie", "waiting", "halted" }

HartEntryPcs ==
    { "hart_entry", "he_init", "he_load", "he_load_in", "he_ctx", "he_copy_in", "he_sret" }

Winners == { h \in Harts : lottery[h] = "won" }

Losers == { h \in Harts : lottery[h] = "lost" }

RECURSIVE SumOver(_, _)
SumOver(f, S) ==
    IF S = {} THEN 0
    ELSE LET x == CHOOSE x \in S : TRUE IN f[x] + SumOver(f, S \ {x})

\* C1: however the harts interleave in mstart, HART_LOTTERY is true until the
\* first swap and false from then on (it is never set back to true), exactly
\* one hart's swap returns true, that hart and no other is on the
\* orchestrator path, and every other hart that has swapped is on the
\* waiting path.
C1_LotteryElectsOne ==
    /\ [](/\ Cardinality(Winners) <= 1
          /\ HART_LOTTERY <=> (\A h \in Harts : lottery[h] = "none")
          /\ ~HART_LOTTERY => Cardinality(Winners) = 1
          /\ \A h \in Harts :
               /\ lottery[h] = "none" <=> pc[h] = "mstart"
               /\ pc[h] \in ElectedPcs => lottery[h] = "won"
               /\ lottery[h] = "won" => pc[h] \in ElectedPcs \cup {"panicked"}
               /\ lottery[h] = "lost" =>
                    pc[h] \in WaitingPcs \cup HartEntryPcs \cup {"guest", "panicked"})
    /\ [][HART_LOTTERY' => HART_LOTTERY]_vars

\* Every hart has swapped: one is the orchestrator in sstart, the others wait.
C1_Witness ==
    /\ \A h \in Harts : lottery[h] # "none"
    /\ \E o \in Harts : pc[o] = "sstart" /\ \A h \in Harts \ {o} : pc[h] = "waiting"

\* C2: the orchestrator stores the EnterSupervisor reason, with all seven
\* fields, in hart h's slot before it writes h's CLINT trigger register: when
\* the interrupt is pending the slot is full, once the interrupt was sent the
\* reason is in the slot or has been applied by h, every run of h's wake
\* handler found a reason, and no hart halts on an empty slot.
C2_MailboxBeforeIpi ==
    \A h \in Harts :
      /\ msip[h] =>
           /\ REASON_ARRAY[h].tag = "EnterSupervisor"
           /\ DOMAIN REASON_ARRAY[h] = {"tag", "a0", "a1", "a2", "a3", "sp", "satp", "mepc"}
           /\ REASON_ARRAY[h].a0 = h
      /\ ipiCount[h] > 0 =>
           (REASON_ARRAY[h].tag = "EnterSupervisor" \/ args[h].tag = "EnterSupervisor")
      /\ wakes[h] > 0 => args[h].tag = "EnterSupervisor"
      /\ pc[h] # "halted"

\* A waiting hart has taken the orchestrator's interrupt and applied its reason.
C2_Witness ==
    \E h \in Harts :
      /\ wakes[h] = 1
      /\ pc[h] = "hart_entry"
      /\ args[h].tag = "EnterSupervisor"
      /\ ipiCount[h] = 1

\* Every check of sstart passes on this machine.
AllChecksPass(m) ==
    /\ SstartFailLine(m) = 0
    /\ \A g \in 1 .. NumHarts : IrqsOk(m, g)

\* C3: no hart ever receives more than one IPI and the orchestrator none;
\* when the checks pass and the orchestrator has left the loop, every listed
\* hart other than itself has received exactly one (NumHarts - 1 in total);
\* the orchestrator then stays parked and never is in hart_entry or a guest.
C3_OneIpiPerSecondary ==
    /\ [](\A o \in Harts :
            /\ \A h \in Harts : ipiCount[h] <= 1
            /\ lottery[o] = "won" =>
                 /\ ipiCount[o] = 0
                 /\ pc[o] \notin HartEntryPcs \cup {"guest"}
            /\ pc[o] = "park" =>
                 /\ AllChecksPass(machine)
                 /\ \A h \in Harts \ {o} : ipiCount[h] = 1
                 /\ SumOver(ipiCount, Harts) = Len(machine.harts) - 1
            /\ (lottery[o] = "won" /\ AllChecksPass(machine)) => pc[o] # "panicked")
    /\ [][\A o \in Harts : pc[o] = "park" => pc'[o] = "park"]_vars

\* The orchestrator is parked after NumHarts - 1 interrupts.
C3_Witness ==
    \E o \in Harts :
      /\ pc[o] = "park"
      /\ SumOver(ipiCount, Harts) = NumHarts - 1
      /\ ipiCount[o] = 0

\* Harts for which sstart has computed a base and a guest id.
StagedHarts == { h \in Harts : staged[h].tag = "staged" }

\* Position of hart h in the machine description's hart list.
Pos(h) == CHOOSE i \in 1 .. Len(machine.harts) : machine.harts[i].hartid = h

\* Guest ids are handed out from 1 upwards without gap or repeat, and the
\* id in a stored reason is the one staged for that hart.
GuestIdsConsecutive ==
    /\ { staged[h].guestid : h \in StagedHarts } = 1 .. Cardinality(StagedHarts)
    /\ \A h1, h2 \in StagedHarts : h1 # h2 => staged[h1].guestid # staged[h2].guestid
    /\ \A h \in Harts :
         REASON_ARRAY[h].tag = "EnterSupervisor" =>
           h \in StagedHarts /\ REASON_ARRAY[h].a3 = staged[h].guestid

\* C4 as stated: guest ids run from 1 without gap or repeat, and of two
\* dispatched harts the one with the smaller hart id has the smaller guest id.
C4_AscendingHartIdOrder ==
    /\ GuestIdsConsecutive
    /\ \A h1, h2 \in StagedHarts : h1 < h2 => staged[h1].guestid < staged[h2].guestid

\* C4, amended: guest ids run from 1 without gap or repeat, and they follow
\* the order of the machine description's hart list, skipping the
\* orchestrator: a hart's guest id is its rank in that list among the harts
\* other than the orchestrator.
C4_ListOrder ==
    /\ GuestIdsConsecutive
    /\ \A o \in Winners : \A h \in StagedHarts :
         staged[h].guestid =
           Cardinality({ i \in 1 .. Pos(h) : machine.harts[i].hartid # o })
    /\ \A h1, h2 \in StagedHarts :
         Pos(h1) < Pos(h2) => staged[h1].guestid < staged[h2].guestid

\* Two harts are staged from a list in descending hart-id order.
C4_Witness ==
    /\ machine.harts = DescendingHarts
    /\ Cardinality(StagedHarts) = NumHarts - 1
    /\ \E h1, h2 \in StagedHarts : h1 < h2 /\ staged[h2].guestid < staged[h1].guestid

\* The sub-regions of the segment at base: stack, data, heap, page tables,
\* guest memory.
SegmentRegions(base) ==
    { Region(AddrAddMiB(base, STACK_OFFSET), AddrAddMiB(base, DATA_OFFSET)),
      Region(AddrAddMiB(base, DATA_OFFSET), AddrAddMiB(base, HEAP_OFFSET)),
      Region(AddrAddMiB(base, HEAP_OFFSET), AddrAdd(AddrAddMiB(base, HEAP_OFFSET), HEAP_SIZE)),
      Region(AddrAddMiB(base, PAGE_TABLE_OFFSET), AddrAddMiB(base, GUEST_MEMORY_OFFSET)),
      Region(AddrAddMiB(base, GUEST_MEMORY_OFFSET), AddrAddMiB(base, HART_SEGMENT_SIZE)) }

\* The ranges sstart has written in hart h's segment: the device tree copy
\* and the initrd copy (the boot page table starts at the base).
WrittenRegions(h) ==
    { Region(staged[h].dtb.dst, AddrAdd(staged[h].dtb.dst, staged[h].dtb.len)),
      Region(staged[h].initrd.dst, AddrAdd(staged[h].initrd.dst, staged[h].initrd.len)) }

RegionsOf(h) == SegmentRegions(staged[h].hart_base_pa) \cup WrittenRegions(h)

Disjoint(r1, r2) == AddrLE(r1.hi, r2.lo) \/ AddrLE(r2.hi, r1.lo)

\* C5: the base of a guest's segment grows strictly with the guest id; every
\* region of a segment lies inside [base, base + HART_SEGMENT_SIZE); regions
\* of distinct guests are disjoint, and all are disjoint from the
\* hypervisor's segment [physical_memory_offset, + HART_SEGMENT_SIZE).
C5_SegmentsDisjoint ==
    LET pmo == machine.physical_memory_offset
        hyp == Region(pmo, HypervisorEnd(pmo))
    IN \A h1 \in StagedHarts :
         LET b1 == staged[h1].hart_base_pa IN
         /\ staged[h1].page_table = b1
         /\ \A r \in RegionsOf(h1) :
              /\ AddrLE(b1, r.lo)
              /\ AddrLE(r.lo, r.hi)
              /\ AddrLE(r.hi, AddrAddMiB(b1, HART_SEGMENT_SIZE))
              /\ Disjoint(r, hyp)
         /\ \A h2 \in StagedHarts \ {h1} :
              /\ staged[h1].guestid < staged[h2].guestid
                   => AddrLT(b1, staged[h2].hart_base_pa)
              /\ \A r1 \in RegionsOf(h1), r2 \in RegionsOf(h2) : Disjoint(r1, r2)

\* Segments are laid out for guests 1 and 2, with a full-size initrd copied.
C5_Witness ==
    \E h1, h2 \in StagedHarts :
      /\ staged[h1].guestid = 1
      /\ staged[h2].guestid = 2
      /\ staged[h1].initrd.len = HEAP_SIZE
      /\ staged[h1].hart_base_pa = <<3072, 0>>
      /\ staged[h2].hart_base_pa = <<4096, 0>>

\* C6: a slot's reason is consumed at most once.  Once hart h's handler has
\* run, h's slot is empty and stays empty; a later run of the handler (a
\* spurious wake) applies nothing: it leaves the applied reason, satp, mepc
\* and the PMP as they were and does not route the hart into hart_entry; and
\* a slot is emptied only by a run of the handler on the hart that owns it.
C6_ConsumedAtMostOnce ==
    /\ [](\A h \in Harts : wakes[h] >= 1 => REASON_ARRAY[h] = NoReason)
    /\ [][\A h \in Harts :
            /\ (wakes[h] >= 1 /\ wakes'[h] > wakes[h]) =>
                 /\ args'[h] = args[h]
                 /\ csr'[h].satp = csr[h].satp
                 /\ csr'[h].mepc = csr[h].mepc
                 /\ pmp'[h] = pmp[h]
                 /\ pc'[h] = "halted"
            /\ (REASON_ARRAY[h] # NoReason /\ REASON_ARRAY'[h] = NoReason) =>
                 wakes'[h] = wakes[h] + 1]_vars

\* A hart that had applied its reason took a second, spurious wake.
C6_Witness ==
    \E h \in Harts :
      /\ wakes[h] = 2
      /\ pc[h] = "halted"
      /\ args[h].tag = "EnterSupervisor"
      /\ ipiCount[h] = 1

\* The two locked windows over the hypervisor's text and shared data.
PmpWindowsInstalled(h) ==
    /\ \E e \in pmp[h] :
         /\ e.index = 0 /\ e.base = <<2048, 0>> /\ e.size = 2 * MiB
         /\ e.flags = {"LOCK", "READ", "EXEC"}
    /\ \E e \in pmp[h] :
         /\ e.index = 1 /\ e.base = <<2050, 0>> /\ e.size = 2 * MiB
         /\ e.flags = {"LOCK", "READ", "WRITE"}

C8_RegistersScrubbed ==
    pc[ScrubHart] = "guest" =>
      /\ DOMAIN regs = Regs
      /\ Cardinality(Regs) = 31
      /\ regs = [r \in Regs |-> IF r = "a1" THEN guest_dtb ELSE <<0, 0>>]
      /\ regs["a0"] = <<0, 0>>

\* The block has run to its sret with the operand in a register that the
\* block zeroes afterwards.
C8_Witness ==
    /\ pc[ScrubHart] = "guest"
    /\ operand = "s1"
    /\ scrub_pc = Len(ScrubProgram)
    /\ regs["a1"] = <<2054, 0>>

\* C9: a panic in hart_entry changes nothing but the panicking hart's own
\* place and panic record: no mailbox slot, CLINT bit, PLIC register, staged
\* segment or other hart's state; and under fair scheduling every hart that
\* has entered hart_entry reaches its guest unless it panics itself.
C9_PanicHaltsOnlyThatHart ==
    /\ [][\A h \in Harts :
            (pc[h] \in HartEntryPcs /\ pc'[h] = "panicked") =>
              /\ panicAt'[h] # 0
              /\ UNCHANGED <<ipiVars, devVars, wakeVars, orchVars, HART_LOTTERY>>
              /\ \A k \in Harts \ {h} :
                   /\ pc'[k] = pc[k]
                   /\ csr'[k] = csr[k]
                   /\ pmp'[k] = pmp[k]
                   /\ priv'[k] = priv[k]
                   /\ panicAt'[k] = panicAt[k]]_vars
    /\ \A h \in Harts :
         (pc[h] = "hart_entry") ~> (pc[h] = "guest" \/ panicAt[h] # 0)
    /\ [](\A h \in Harts : pc[h] = "panicked" => panicAt[h] # 0)

\* One hart has panicked in hart_entry and another runs its guest.
C9_Witness ==
    \E h1, h2 \in Harts :
      /\ panicAt[h1] \in {318, 321} /\ pc[h1] = "panicked"
      /\ pc[h2] = "guest" /\ panicAt[h2] = 0

\* Size of the initrd in bytes (for initrd_start <= initrd_end)
InitrdBytes(m) == AddrDiff(m.initrd_end, m.initrd_start)

\* Nothing has been dispatched: no slot, segment, PLIC context or CLINT
\* register has been written.
NothingDispatched ==
    /\ \A h \in Harts :
         /\ REASON_ARRAY[h] = NoReason
         /\ staged[h] = NotStaged
         /\ ipiCount[h] = 0
         /\ ~msip[h]
         /\ wakes[h] = 0
    /\ \A c \in Contexts : plic.threshold[c] = -1 /\ plic.enable[c] = {-1}

\* C10: with an initrd of exactly HEAP_SIZE bytes the orchestrator's size
\* check passes (it does not panic at line 249 and, the other checks passing,
\* enters the loop); with HEAP_SIZE + 1 bytes the orchestrator panics at line
\* 249 and nothing is ever dispatched.
C10_InitrdBound ==
    \A o \in Winners :
      /\ (InitrdBytes(machine) = HEAP_SIZE /\ pc[o] \notin {"elected", "mret", "sstart"}) =>
           /\ panicAt[o] # 249
           /\ SstartFailLine(machine) = 0 => panicAt[o] \in {0, 272}
      /\ InitrdBytes(machine) = HEAP_SIZE + 1 =>
           /\ NothingDispatched
           /\ pc[o] \in {"elected", "mret", "sstart", "panicked"}
           /\ pc[o] = "panicked" => panicAt[o] = 249

\* An initrd of HEAP_SIZE + 1 bytes has stopped the orchestrator at line 249
\* while the other harts wait.
C10_Witness ==
    /\ InitrdBytes(machine) = HEAP_SIZE + 1
    /\ \E o \in Winners : pc[o] = "panicked" /\ panicAt[o] = 249
    /\ \A h \in Losers : pc[h] = "waiting"
    /\ Cardinality(Losers) = NumHarts - 1

\* The device tree header fails a check of lines 236-238.
FdtHeaderBad(f) == ~FdtMagicOk(f) \/ ~FdtVersionOk(f) \/ ~FdtSizeOk(f)

\* Places of the orchestrator before sstart's checks have run.
BeforeChecksPcs == { "elected", "mret", "sstart" }

\* C11: the orchestrator checks the host device tree's header before it
\* parses it.  With an invalid magic, a version below 17, a last compatible
\* version above 17 or a total size of 64 KiB or more, the orchestrator stops
\* in the panic handler at the failing assertion (236, 237 or 238) and
\* nothing is ever dispatched.  A total size of exactly 64 * 1024 stops it at
\* line 238; with 64 * 1024 - 1 and an otherwise valid header no header
\* assertion fails.
C11_FdtHeaderValidated ==
    \A o \in Winners :
      LET f == machine.fdt IN
      /\ FdtHeaderBad(f) =>
           /\ NothingDispatched
           /\ pc[o] \in BeforeChecksPcs \cup {"panicked"}
           /\ pc[o] = "panicked" => panicAt[o] \in {236, 237, 238}
           /\ plic.priorities = 0
      /\ (pc[o] = "panicked" /\ ~FdtMagicOk(f)) => panicAt[o] = 236
      /\ (pc[o] = "panicked" /\ FdtMagicOk(f) /\ f.version < 17) => panicAt[o] = 237
      /\ (pc[o] = "panicked" /\ FdtMagicOk(f) /\ f.last_comp_version > 17) =>
           panicAt[o] = 237
      /\ f.total_size >= 64 * 1024 => pc[o] \notin {"loop", "loop_mailbox", "loop_ipi", "park"}
      /\ (pc[o] = "panicked" /\ FdtMagicOk(f) /\ FdtVersionOk(f)
            /\ f.total_size = 64 * 1024) => panicAt[o] = 238
      /\ (f.total_size = 64 * 1024 - 1 /\ FdtMagicOk(f) /\ FdtVersionOk(f)) =>
           panicAt[o] \notin {236, 237, 238}

\* A device tree of exactly 64 KiB has stopped the orchestrator at line 238
\* while the other harts wait, undispatched.
C11_Witness ==
    /\ machine.fdt.total_size = 64 * 1024
    /\ \E o \in Winners : pc[o] = "panicked" /\ panicAt[o] = 238
    /\ \A h \in Losers : pc[h] = "waiting"
    /\ Cardinality(Losers) = NumHarts - 1
    /\ NothingDispatched

\* Hart h's segment [base, base + HART_SEGMENT_SIZE) lies inside the
\* machine's physical memory.
SegmentInMemory(h) ==
    /\ AddrLE(machine.physical_memory_offset, staged[h].hart_base_pa)
    /\ AddrLE(AddrAddMiB(staged[h].hart_base_pa, HART_SEGMENT_SIZE), MemoryEnd(machine))

\* Guest ids whose segment does not fit the machine's physical memory.
GuestsPastMemory ==
    { g \in 1 .. (Len(machine.harts) - 1) :
        ~AddrLE(AddrAddMiB(HartBase(machine.physical_memory_offset, g), HART_SEGMENT_SIZE),
                MemoryEnd(machine)) }

\* C12: when the machine description lists more harts than physical memory
\* holds segments for, the orchestrator aborts: it writes no segment, PLIC
\* context, mailbox slot or CLINT register for a hart whose segment reaches
\* past the end of physical memory, and it does not run the dispatch loop to
\* its end.
C12_NoDispatchPastMemory ==
    /\ \A h \in StagedHarts : SegmentInMemory(h)
    /\ \A h \in Harts : ipiCount[h] > 0 => SegmentInMemory(h)
    /\ GuestsPastMemory # {} => \A o \in Winners : pc[o] # "park"

\* The S-mode PLIC context the machine description lists for hart h.
ContextOf(h) == machine.harts[Pos(h)].plic_context

\* Hart h's PLIC context registers have been written.
ContextWritten(c) == plic.threshold[c] # -1 \/ plic.enable[c] # {-1}

\* C13: the orchestrator writes a hart's segment, PLIC context registers and
\* mailbox slot before it writes that hart's CLINT register, and not again
\* afterwards (the slot changes later only by the hart's own wake handler
\* emptying it); each segment, context and slot is written in one iteration
\* only, for one hart.
C13_WritesBeforeRelease ==
    /\ [](\A h \in Harts :
            ipiCount[h] > 0 =>
              /\ h \in StagedHarts
              /\ plic.threshold[ContextOf(h)] = 0
              /\ plic.enable[ContextOf(h)] = IrqMask(machine, staged[h].guestid)
              /\ REASON_ARRAY[h].tag = "EnterSupervisor" \/ args[h].tag = "EnterSupervisor")
    /\ [](\A h1, h2 \in StagedHarts :
            h1 # h2 =>
              /\ ContextOf(h1) # ContextOf(h2)
              /\ staged[h1].hart_base_pa # staged[h2].hart_base_pa)
    /\ [](Cardinality({ c \in Contexts : ContextWritten(c) }) = Cardinality(StagedHarts))
    /\ [][\A h \in Harts :
            /\ ipiCount[h] > 0 =>
                 /\ staged'[h] = staged[h]
                 /\ plic'.threshold[ContextOf(h)] = plic.threshold[ContextOf(h)]
                 /\ plic'.enable[ContextOf(h)] = plic.enable[ContextOf(h)]
                 /\ REASON_ARRAY'[h] # REASON_ARRAY[h] =>
                      (REASON_ARRAY'[h] = NoReason /\ wakes'[h] = wakes[h] + 1)
            /\ staged'[h] # staged[h] => (staged[h] = NotStaged /\ ipiCount[h] = 0)
            /\ (REASON_ARRAY'[h] # REASON_ARRAY[h] /\ REASON_ARRAY'[h] # NoReason) =>
                 (REASON_ARRAY[h] = NoReason /\ ipiCount[h] = 0 /\ h \in StagedHarts)
            /\ ipiCount'[h] # ipiCount[h] => ipiCount[h] = 0]_vars
    /\ [][\A c \in Contexts :
            (plic'.threshold[c] # plic.threshold[c] \/ plic'.enable[c] # plic.enable[c]) =>
              ~ContextWritten(c)]_vars

\* The orchestrator is in its second iteration, about to signal the second
\* hart, while the first hart, released, already runs its guest.
C13_Witness ==
    \E o, h1, h2 \in Harts :
      /\ pc[o] = "loop_ipi"
      /\ cur[o].hartid = h2
      /\ ipiCount[h1] = 1 /\ pc[h1] = "guest"
      /\ ipiCount[h2] = 0 /\ h2 \in StagedHarts
      /\ REASON_ARRAY[h2].tag = "EnterSupervisor"
      /\ ContextWritten(ContextOf(h2))

\* Hart h executes inside one of hart_entry's two guarded sections (a panic
\* of the image loader stops it inside the first).
InGuardedSection(h) ==
    \/ pc[h] \in { "he_load_in", "he_copy_in" }
    \/ pc[h] = "panicked" /\ panicAt[h] = 321

\* C14: sstatus.SUM is set on a hart only while it executes inside one of
\* the two guarded sections of hart_entry: it is clear before the first
\* section, between the two, after the second and in the guest.
C14_SumOnlyInGuardedSections ==
    \A h \in Harts : csr[h].sum => InGuardedSection(h)

\* Zero-based descriptor indices (g-1)*4 + j, 0 <= j < 4, that exist in the
\* machine's descriptor list.
WindowIndices(g) ==
    { k \in 0 .. (Len(machine.virtio) - 1) : \E j \in 0 .. 3 : k = (g - 1) * 4 + j }

\* C15: for a dispatched guest id g the enable word written to the hart's
\* PLIC context has bit i set exactly when an existing descriptor at index
\* (g-1)*4 + j, 0 <= j < 4, has irq i, and the context's threshold is 0; a
\* descriptor of the window with irq >= 32 stops the orchestrator at line 272
\* before it writes anything for that hart, harts dispatched earlier keeping
\* what they got; the index windows of distinct guest ids are disjoint.
C15_PlicMaskFromWindow ==
    /\ \A h \in StagedHarts :
         LET g == staged[h].guestid
             c == ContextOf(h)
         IN /\ plic.threshold[c] = 0
            /\ plic.enable[c] \subseteq 0 .. 31
            /\ \A i \in 0 .. 31 :
                 i \in plic.enable[c] <=>
                   \E k \in WindowIndices(g) : machine.virtio[k + 1].irq = i
            /\ \A k \in WindowIndices(g) : machine.virtio[k + 1].irq < 32
    /\ \A o \in Winners :
         /\ (pc[o] = "panicked" /\ panicAt[o] = 272) =>
              /\ \E k \in WindowIndices(guestid[o]) : machine.virtio[k + 1].irq >= 32
              /\ Cardinality(StagedHarts) = guestid[o] - 1
              /\ \A h \in Harts \ StagedHarts :
                   /\ REASON_ARRAY[h] = NoReason
                   /\ ipiCount[h] = 0
                   /\ ~ContextWritten(ContextOf(h))
         /\ (pc[o] \in {"loop_mailbox", "loop_ipi"}) =>
              \A k \in WindowIndices(guestid[o]) : machine.virtio[k + 1].irq < 32
    /\ \A g1, g2 \in 1 .. NumHarts :
         g1 # g2 => WindowIndices(g1) \cap WindowIndices(g2) = {}

\* Guest 1 has a full window of four descriptors, one of them irq 31, and
\* guest 2 a window with the single fifth descriptor.
C15_Witness ==
    \E h1, h2 \in StagedHarts :
      /\ staged[h1].guestid = 1 /\ plic.enable[ContextOf(h1)] = {1, 2, 3, 31}
      /\ staged[h2].guestid = 2 /\ plic.enable[ContextOf(h2)] = {5}
      /\ plic.threshold[ContextOf(h2)] = 0

\* C16: when the elected hart enters sstart, every entry mstart has written
\* into the boot page table is valid and is either a leaf or a pointer to
\* the second-level table (the page after the root); and every access of the elected hart translates: at offset o below
\* 1 GiB, virtual o to physical o, virtual 0x80000000 + o to physical
\* 0x80000000 + o, and virtual 0xffffffffc0000000 + o to physical
\* 0x80000000 + o.
C16_BootPageTableMaps ==
    /\ (pc[WalkHart] = "sstart" /\ walk = NoWalk) =>
         /\ csr[WalkHart].satp = [mode |-> 8, ppn |-> AddrPage(MbootPageTablePa)]
         /\ Cardinality(WrittenWords) = 516
         /\ \A w \in WrittenWords :
              LET v == BootPageTable[w] IN
              /\ PteValid(v)
              /\ ~PteReserved(v)
              /\ \/ PteLeaf(v)
                 \/ /\ ~Bit(v, 1) /\ ~Bit(v, 2) /\ ~Bit(v, 3)
                    /\ PtePpn(v) = AddrPage(MbootPageTablePa) + 1
                    /\ w < 512
    /\ walk.tag = "done" =>
         /\ walk.result.ok
         /\ walk.region = "low" => walk.result.pa = walk.offset
         /\ walk.region = "hyp" =>
              walk.result.pa = <<2048 + walk.offset[1], walk.offset[2]>>
         /\ walk.region = "alias" =>
              walk.result.pa = <<2048 + walk.offset[1], walk.offset[2]>>

\* The last byte of the alias range, 0xffffffffffffffff, has been accessed
\* and translated to the last byte below 0xc0000000.
C16_Witness ==
    /\ walk.tag = "done"
    /\ walk.region = "alias"
    /\ walk.va = VA(1, <<524287, MiB - 1>>)
    /\ walk.result = [ok |-> TRUE, pa |-> <<3071, MiB - 1>>]

\* The interrupt sources whose enable bit is set in hart h's mie register.
EnabledSources(h) == { b \in 0 .. 15 : Bit(csr[h].mie, b) }

\* C17: on a hart in the wait loop, with machine interrupts enabled in
\* mstatus, the machine software interrupt is the only source enabled in
\* mie: every other machine-level source, the machine timer interrupt among
\* them, is masked.
C17_OnlyWakeInterruptEnabled ==
    \A h \in Harts :
      pc[h] = "waiting" =>
        /\ csr[h].mstatus_mie
        /\ csr[h].mtvec = "start_hart"
        /\ EnabledSources(h) = {MSI_BIT}

\* Hart h has applied an EnterSupervisor reason.
Entered(h) == args[h].tag = "EnterSupervisor"

\* Places of a hart that is not yet in the wait loop.
BeforeWaitPcs == { "mstart", "wait_vec", "wait_mie" }

\* C18: under fair scheduling, on a machine that passes every check, there
\* comes a moment when every hart other than the orchestrator has left the
\* wait loop for hart_entry, however the harts interleave; a hart applies
\* its reason only from the wait loop and then stands at hart_entry; and the
\* interrupt of a hart signalled before it has run the lottery, installed
\* its vector or enabled interrupts stays pending until the hart takes it
\* from the wait loop.
C18_NoLostWakeup ==
    /\ AllChecksPass(machine) ~> (\A h \in Harts : lottery[h] = "won" \/ Entered(h))
    /\ [](\A h \in Harts : (msip[h] /\ pc[h] \in BeforeWaitPcs) => ~csr[h].mstatus_mie)
    /\ [][\A h \in Harts :
            (~Entered(h) /\ Entered(h)') =>
              (pc[h] = "waiting" /\ pc'[h] = "hart_entry" /\ msip[h] /\ ~msip'[h])]_vars
    /\ [][\A h \in Harts :
            (msip[h] /\ ~msip'[h]) => (pc[h] = "waiting" /\ Entered(h)')]_vars

\* The orchestrator has stored the reason and signalled a hart that has not
\* yet run the lottery.
C18_Witness ==
    \E h \in Harts :
      /\ pc[h] = "mstart"
      /\ msip[h]
      /\ ipiCount[h] = 1
      /\ REASON_ARRAY[h].tag = "EnterSupervisor"
      /\ ~csr[h].mstatus_mie

\* Harts for which a reason has been stored: it is in the slot or applied.
Dispatched == { h \in Harts : REASON_ARRAY[h].tag = "EnterSupervisor" \/ Entered(h) }

\* The reason stored for hart h.
ReasonOf(h) == IF REASON_ARRAY[h].tag = "EnterSupervisor" THEN REASON_ARRAY[h] ELSE args[h]

\* Address a lies in [lo, lo + HART_SEGMENT_SIZE)
InSegment(a, lo) == AddrLE(lo, a) /\ AddrLT(a, <<lo[1] + 1024, lo[2]>>)

\* C19: a stored reason is in the slot of the hart it names and carries, for
\* guest id g and B = physical_memory_offset + g * HART_SEGMENT_SIZE:
\* a0 = hart id, a1 = B + 4096, a2 = B, a3 = g, satp = mode 8 (Sv39) with
\* root page B >> 12, sp = B + 4 MiB + DIRECT_MAP_OFFSET, mepc = hart_entry;
\* a1, a2, the root page and the physical part of sp lie in
\* [B, B + HART_SEGMENT_SIZE); and no two harts have the same a2, a3 or satp.
C19_ReasonFields ==
    /\ \A h \in Harts :
         /\ REASON_ARRAY[h].tag \in {"None", "EnterSupervisor"}
         /\ REASON_ARRAY[h].tag = "EnterSupervisor" => REASON_ARRAY[h].a0 = h
         /\ Entered(h) => args[h].a0 = h
    /\ \A h \in Dispatched :
         LET r == ReasonOf(h)
             g == staged[h].guestid
             pmo == machine.physical_memory_offset
             B == <<pmo[1] + g * 1024, pmo[2]>>
         IN /\ h \in StagedHarts
            /\ g >= 1
            /\ r.a0 = h
            /\ r.a1 = <<B[1], B[2] + 4096>>
            /\ r.a2 = B
            /\ r.a3 = g
            /\ r.satp = [mode |-> 8, ppn |-> B[1] * 256 + (B[2] \div 4096)]
            /\ r.sp = [pa |-> <<B[1] + 4, B[2]>>, plus |-> "DIRECT_MAP_OFFSET"]
            /\ r.mepc = "hart_entry"
            /\ B[2] % 4096 = 0
            /\ InSegment(r.a1, B)
            /\ InSegment(r.a2, B)
            /\ InSegment(r.sp.pa, B)
            /\ InSegment(<<r.satp.ppn \div 256, (r.satp.ppn % 256) * 4096>>, B)
    /\ \A h1, h2 \in Dispatched :
         h1 # h2 =>
           /\ ReasonOf(h1).a2 # ReasonOf(h2).a2
           /\ ReasonOf(h1).a3 # ReasonOf(h2).a3
           /\ ReasonOf(h1).satp # ReasonOf(h2).satp

\* The reason of guest 1 has been applied by its hart and that of guest 2,
\* with base 0x100000000, is in its hart's slot.
C19_Witness ==
    \E h1, h2 \in Harts :
      /\ Entered(h1) /\ args[h1].a3 = 1 /\ args[h1].a0 = h1
      /\ REASON_ARRAY[h2].tag = "EnterSupervisor"
      /\ REASON_ARRAY[h2].a3 = 2
      /\ REASON_ARRAY[h2].a2 = <<4096, 0>>
      /\ REASON_ARRAY[h2].a1 = <<4096, 4096>>

\* C20: once the checks of lines 248-249 have passed, no write of the
\* dispatch loop (boot page table, device tree copy, initrd copy, for any
\* guest id) has a byte in common with the source [initrd_start,
\* initrd_end), every write lying at or above initrd_end; so the source is
\* unchanged, and the initrd staged for a hart, at its base + HEAP_OFFSET
\* and of the source's length, holds the original image when the hart is
\* signalled.
C20_InitrdSourceUntouched ==
    /\ \A h \in StagedHarts :
         /\ \A r \in StageWrites(staged[h]) :
              /\ ~Overlaps(r, InitrdSource(machine))
              /\ AddrLE(machine.initrd_end, r.lo)
         /\ staged[h].guestid >= 1
         /\ InitrdEndOk(machine) /\ InitrdSizeOk(machine)
    /\ \A h \in Harts :
         (ipiCount[h] > 0 \/ msip[h]) =>
           /\ h \in StagedHarts
           /\ staged[h].initrd.content = "original"
           /\ staged[h].initrd.len = InitrdBytes(machine)
           /\ staged[h].initrd.dst =
                <<staged[h].hart_base_pa[1] + HEAP_OFFSET, staged[h].hart_base_pa[2]>>

\* Two harts have been signalled on a machine whose initrd, of HEAP_SIZE
\* bytes, ends exactly where the first guest's boot page table begins.
C20_Witness ==
    \E h1, h2 \in Harts :
      /\ ipiCount[h1] = 1 /\ staged[h1].guestid = 1
      /\ ipiCount[h2] = 1 /\ staged[h2].guestid = 2
      /\ staged[h1].page_table = machine.initrd_end
      /\ staged[h2].initrd.content = "original"
      /\ staged[h2].initrd.len = HEAP_SIZE

====
